---- MODULE Spec2Model ----
(***************************************************************************)
(* The account/device lifecycle coordinator of gui/src/main/account.ts    *)
(* (class Account) as a state machine.  Every handler of the class runs   *)
(* to its next await atomically (single-threaded event loop), so each     *)
(* handler is one action up to its await and one action per way the       *)
(* awaited daemon call can settle.                                         *)
(*                                                                         *)
(* Time is the wall clock in milliseconds, as in the source; it advances  *)
(* in steps of TickStep.  Optional values (`x?: T`) are sequences of      *)
(* length 0 or 1.                                                          *)
(***************************************************************************)
EXTENDS Integers, Sequences, FiniteSets, TLC

\* ---------------------------------------------------------------- bounds
MaxTicks == 1          \* the clock advances at most this many TickSteps
MaxHistoryCalls == 1   \* getAccountHistory calls in flight that will settle
MaxVoucherCalls == 1   \* submitVoucher calls in flight at once
MaxFencedFetches == 1  \* fenced getAccountData calls in flight that will complete

Hour == 60 * 60 * 1000
TickStep == 6 * Hour

\* account.ts:210  const twelveHours = 12 * 60 * 60 * 1000;
twelveHours == 12 * 60 * 60 * 1000

\* ----------------------------------------------------------- input domains
AccountTokens == {"A", "B"}
HistoryTokens == {"A"}     \* what getAccountHistory() may return, besides nothing
Rejections == {"InvalidAccountError", "Error"}
Expiries == {TickStep, 3 * TickStep}
TunnelStates == {"connected", "disconnected", "error"}

None == <<>>
Some(x) == <<x>>

LoggedIn(t) == [type |-> "logged in", accountToken |-> t]
LoggedOut == [type |-> "logged out", accountToken |-> ""]
Revoked == [type |-> "revoked", accountToken |-> ""]
DeviceStates == {LoggedIn(t) : t \in AccountTokens} \cup {LoggedOut, Revoked}

Min(a, b) == IF a <= b THEN a ELSE b

Effect(e, arg) == [e |-> e, arg |-> arg]

Op(name, input) == [name |-> name, input |-> input]

PolicyRun(accountData, found, expiredMayDisplay, closeToExpiryMayDisplay) ==
    [accountData |-> accountData, found |-> found,
     expiredMayDisplay |-> expiredMayDisplay,
     closeToExpiryMayDisplay |-> closeToExpiryMayDisplay]

VARIABLES
    deviceStateValue,     \* account.ts:48  Option(DeviceState)
    accountDataValue,     \* account.ts:32  Option([expiry])
    accountHistoryValue,  \* account.ts:33  Option(AccountToken)
    scheduler,            \* account.ts:34  the pending callbacks of the Scheduler
    cache,                \* account.ts:35  the fetches the AccountDataCache has in flight
    fencedFetches,        \* account.ts:36-38  the number of getAccountData calls still in
                          \* flight at the daemon whose result the cache will drop
    now,                  \* the wall clock (Date.now())
    historyCalls,         \* getAccountHistory calls in flight (updateAccountHistory)
    voucherCalls,         \* submitVoucher handlers suspended on their await, each with
                          \* the account token it read before the call
    lastEvent,            \* history: the state carried by the last delivered device event
    redelivered,          \* history: the last step delivered a device event with the same
                          \* state as the step before it did
    op,                   \* history: the handler the last step belongs to, with the input
                          \* or the outcome of the awaited call that decides what it does
    policyRun,            \* history: if the last step ran handleAccountExpiry, what it
                          \* ran on: the account data, the schedule it found and the two
                          \* mayDisplay() answers
    effects               \* history: what the last handler step did to the outside, in order:
                          \* its calls on the cache, the scheduler, the delegate and the
                          \* IPC channel, and the error it threw

vars == <<deviceStateValue, accountDataValue, accountHistoryValue, scheduler, cache,
          fencedFetches, now, historyCalls, voucherCalls, lastEvent, redelivered, op,
          policyRun, effects>>

coordinator == <<deviceStateValue, accountDataValue, accountHistoryValue, scheduler>>

Init ==
    /\ deviceStateValue = None
    /\ accountDataValue = None
    /\ accountHistoryValue = None
    /\ scheduler = {}
    /\ cache = {}
    /\ fencedFetches = 0
    /\ now = 0
    /\ historyCalls = 0
    /\ voucherCalls = {}
    /\ lastEvent = None
    /\ redelivered = FALSE
    /\ op = Op("constructor", "")
    /\ policyRun = None
    /\ effects = <<>>

\* ------------------------------------------------- collaborators (contracts)
\* Scheduler: "at most one pending callback; arming always cancels and replaces
\* any prior pending callback; cancellation is idempotent".  The state is the set
\* of pending callbacks, each with the delay it was armed with and its fire time.
Scheduler_isRunning(s) == s # {}

Scheduler_cancel(s) == {}

Scheduler_schedule(s, at, delay) ==
    Scheduler_cancel(s) \cup {[fireTime |-> at + delay, delay |-> delay]}

\* AccountDataCache: "fetch(id) dedups concurrent calls per id", "invalidate()
\* drops cached value; fences in-flight stale completions".  The state is the
\* set of account tokens with a getAccountData call in flight.
Cache_fetch(c, accountToken) == c \cup {accountToken}

\* mutation of Cache_invalidate: the fetches in flight stay deliverable
Cache_invalidate_NoFence(c) == c

Cache_invalidate(c) == {}

\* the calls invalidate() fences: every call in flight stays in flight at the
\* daemon, and its completion will be dropped.  Of the fenced calls at most
\* MaxFencedFetches complete; one fenced beyond that stays pending for good.
Cache_fence(c, fenced) == Min(fenced + Cardinality(c), MaxFencedFetches)

\* ------------------------------------------------------------ pure helpers
\* account.ts:103-105
isLoggedIn(deviceState) ==
    /\ deviceState # None
    /\ deviceState[1].type = "logged in"

\* account.ts:227-231
getAccountToken(deviceState) ==
    IF deviceState # None /\ deviceState[1].type = "logged in"
    THEN Some(deviceState[1].accountToken)
    ELSE None

\* mutation of hasExpired: `>` for `>=`
hasExpired_Strict(accountData, t) ==
    accountData = None \/ t > accountData[1].expiry

\* account.ts:114  hasExpired
hasExpired(accountData, t) ==
    accountData = None \/ t >= accountData[1].expiry

\* account.ts:117
staleExpiryDetected(tunnelState, accountData, t) ==
    tunnelState = "connected" /\ hasExpired(accountData, t)

\* mutation of mayUpdateAccountData: the transport's state is not consulted
mayUpdateAccountData_IgnoreConnection(connected, deviceState) ==
    deviceState # None /\ deviceState[1].type = "logged in"

\* account.ts:108
mayUpdateAccountData(connected, deviceState) ==
    connected /\ isLoggedIn(deviceState)

\* mutation of nextDeviceState: only the first event is stored
nextDeviceState_KeepFirst(current, eventState) ==
    IF current = None THEN Some(eventState) ELSE current

\* account.ts:124
nextDeviceState(current, eventState) == Some(eventState)

\* mutation of cacheRequestFor: the 'revoked' case label is missing
cacheRequestFor_RevokedMissing(eventState) ==
    CASE eventState.type = "logged in" -> <<Effect("fetch", eventState.accountToken)>>
      [] eventState.type = "logged out" -> <<Effect("invalidate", "")>>
      [] OTHER -> <<>>

\* mutation of cacheRequestFor: a login invalidates the cache before it fetches
cacheRequestFor_InvalidateFirst(eventState) ==
    CASE eventState.type = "logged in" ->
             <<Effect("invalidate", ""), Effect("fetch", eventState.accountToken)>>
      [] eventState.type \in {"logged out", "revoked"} -> <<Effect("invalidate", "")>>
      [] OTHER -> <<>>

\* account.ts:130-138  the cache request chosen by the new device state
cacheRequestFor(eventState) ==
    CASE eventState.type = "logged in" -> <<Effect("fetch", eventState.accountToken)>>
      [] eventState.type \in {"logged out", "revoked"} -> <<Effect("invalidate", "")>>
      [] OTHER -> <<>>

\* the cache after the requests of a handler step have been applied to it
RECURSIVE applyCacheRequests(_, _)
applyCacheRequests(c, reqs) ==
    IF reqs = <<>> THEN c
    ELSE LET r == Head(reqs)
             c1 == CASE r.e = "fetch" -> Cache_fetch(c, r.arg)
                     [] r.e = "invalidate" -> Cache_invalidate(c)
                     [] OTHER -> c
         IN applyCacheRequests(c1, Tail(reqs))

\* the fenced calls after the requests of a handler step have been applied
RECURSIVE applyCacheFences(_, _, _)
applyCacheFences(c, fenced, reqs) ==
    IF reqs = <<>> THEN fenced
    ELSE LET r == Head(reqs)
         IN applyCacheFences(applyCacheRequests(c, <<r>>),
                             IF r.e = "invalidate" THEN Cache_fence(c, fenced) ELSE fenced,
                             Tail(reqs))

\* account.ts:140, 83  `void this.updateAccountHistory()`: a getAccountHistory call
\* is started and not awaited.  Of the calls in flight at most MaxHistoryCalls
\* settle; one started beyond that stays pending for good.
startHistoryRefresh(calls) ==
    IF calls < MaxHistoryCalls THEN calls + 1 ELSE calls

\* account.ts:126-143  the calls handleDeviceEvent makes, in order
deviceEventEffects(eventState, postUpgradeCheck) ==
    (IF postUpgradeCheck THEN <<Effect("performPostUpgradeCheck", "")>> ELSE <<>>)
    \o cacheRequestFor(eventState)
    \o <<Effect("updateAccountHistory", ""),
         Effect("setTrayContextMenu", ""),
         Effect("notifyDevice", eventState.type)>>

\* mutation of deviceEventSchedule: a loggedOut or revoked event cancels the schedule
deviceEventSchedule_CancelOnLogout(sched, eventState) ==
    IF eventState.type \in {"logged out", "revoked"} THEN Scheduler_cancel(sched) ELSE sched

\* account.ts:123-144  handleDeviceEvent makes no call on the scheduler: the
\* schedule after it is the schedule before it
deviceEventSchedule(sched, eventState) == sched

\* ------------------------------------------------ Expiry Notification Policy
\* mutation of expiryDelay: the delay is not capped by the remaining time
expiryDelay_AlwaysTwelveHours(expiry, t) == twelveHours

\* account.ts:210-212
expiryDelay(expiry, t) ==
    LET remainingMilliseconds == expiry - t
    IN Min(twelveHours, remainingMilliseconds)

\* mutation of mayArm: isRunning is not consulted
mayArm_IgnoreRunning(sched, closeToExpiryMayDisplay) == closeToExpiryMayDisplay

\* mutation of mayArm: the expiring-soon evaluation is not consulted
mayArm_IgnoreMayDisplay(sched, closeToExpiryMayDisplay) == ~Scheduler_isRunning(sched)

\* account.ts:205-206
mayArm(sched, closeToExpiryMayDisplay) ==
    ~Scheduler_isRunning(sched) /\ closeToExpiryMayDisplay

\* mutation of expiredBranch: the schedule is not cancelled
expiredBranch_NoCancel(sched) ==
    [scheduler |-> sched, effects |-> <<Effect("notify", "expired")>>]

\* account.ts:202-203
expiredBranch(sched) ==
    [scheduler |-> Scheduler_cancel(sched),
     effects |-> <<Effect("cancel", IF Scheduler_isRunning(sched) THEN "armed" ELSE "idle"),
                   Effect("notify", "expired")>>]

\* account.ts:208-213
closeToExpiryBranch(sched, expiry, t) ==
    [scheduler |-> Scheduler_schedule(sched, t, expiryDelay(expiry, t)),
     effects |-> <<Effect("notify", "close-to-expiry"), Effect("schedule", "")>>]

\* mutation of handleAccountExpiry: the recheck is armed with a bare timeout on
\* every eligible evaluation, instead of through the one Scheduler
handleAccountExpiry_BareTimeout(accountData, sched, t, expiredMayDisplay, closeToExpiryMayDisplay) ==
    IF accountData # None
    THEN IF expiredMayDisplay
         THEN expiredBranch(sched)
         ELSE IF closeToExpiryMayDisplay
              THEN [scheduler |-> sched \cup
                                  {[fireTime |-> t + expiryDelay(accountData[1].expiry, t),
                                    delay |-> expiryDelay(accountData[1].expiry, t)]},
                    effects |-> <<Effect("notify", "close-to-expiry"),
                                  Effect("schedule", "")>>]
              ELSE [scheduler |-> sched, effects |-> <<>>]
    ELSE [scheduler |-> sched, effects |-> <<>>]

\* account.ts:190-216.  The two mayDisplay() answers are the providers' and are
\* inputs here.
handleAccountExpiry(accountData, sched, t, expiredMayDisplay, closeToExpiryMayDisplay) ==
    IF accountData # None
    THEN IF expiredMayDisplay
         THEN expiredBranch(sched)
         ELSE IF mayArm(sched, closeToExpiryMayDisplay)
              THEN closeToExpiryBranch(sched, accountData[1].expiry, t)
              ELSE [scheduler |-> sched, effects |-> <<>>]
    ELSE [scheduler |-> sched, effects |-> <<>>]

\* mutation of cacheObserver: the data is stored and notified, the Policy is not run
cacheObserver_NoPolicy(accountData, sched, t, expiredMayDisplay, closeToExpiryMayDisplay) ==
    [accountDataValue |-> Some(accountData),
     scheduler |-> sched,
     effects |-> <<Effect("notifyAccount", "")>>]

\* account.ts:39-45  the cache's delivery callback
cacheObserver(accountData, sched, t, expiredMayDisplay, closeToExpiryMayDisplay) ==
    LET policy == handleAccountExpiry(Some(accountData), sched, t,
                                      expiredMayDisplay, closeToExpiryMayDisplay)
    IN [accountDataValue |-> Some(accountData),
        scheduler |-> policy.scheduler,
        effects |-> <<Effect("notifyAccount", "")>> \o policy.effects]

\* mutation of logoutSucceeded: the schedule is not cancelled
logoutSucceeded_NoCancel(sched) ==
    [scheduler |-> sched, effects |-> <<>>]

\* account.ts:179-181  logoutAccount() resolved: cancel the schedule
logoutSucceeded(sched) ==
    [scheduler |-> Scheduler_cancel(sched),
     effects |-> <<Effect("cancel", IF Scheduler_isRunning(sched) THEN "armed" ELSE "idle")>>]

\* mutation of logoutFailed: the schedule is cancelled in the catch block too
logoutFailed_Cancels(sched) ==
    [scheduler |-> Scheduler_cancel(sched),
     effects |-> <<Effect("log", "Failed to logout"), Effect("throw", "Error")>>]

\* account.ts:182-187  logoutAccount() rejected: log and rethrow
logoutFailed(sched) ==
    [scheduler |-> sched,
     effects |-> <<Effect("log", "Failed to logout"), Effect("throw", "Error")>>]

\* mutation of loginError: every rejection is rethrown as it came
loginError_Raw(rejection) == rejection

\* account.ts:165-174  the error login() throws for a rejection of loginAccount()
loginError(rejection) ==
    IF rejection = "InvalidAccountError" THEN "Invalid account number" ELSE rejection

\* mutation of loginSettled: a successful login stores the logged-in state
\* without waiting for the device event
loginSettled_StoresLoggedIn(deviceState, accountToken, rejection) ==
    [deviceStateValue |-> IF rejection = "" THEN Some(LoggedIn(accountToken))
                                            ELSE deviceState,
     effects |-> <<Effect("loginAccount", "")>> \o
                 IF rejection = ""
                 THEN <<>>
                 ELSE <<Effect("log", "Failed to login"),
                        Effect("throw", loginError(rejection))>>]

\* account.ts:162-175  login(): one loginAccount() call; when it resolves nothing
\* else is done, when it rejects the error is logged and thrown on as loginError
\* maps it.  rejection is "" when the call resolves.
loginSettled(deviceState, accountToken, rejection) ==
    [deviceStateValue |-> deviceState,
     effects |-> <<Effect("loginAccount", "")>> \o
                 IF rejection = ""
                 THEN <<>>
                 ELSE <<Effect("log", "Failed to login"),
                        Effect("throw", loginError(rejection))>>]

\* mutation of voucherCacheUpdate: the account data is fetched again instead
voucherCacheUpdate_Fetch(currentAccountToken) ==
    IF currentAccountToken # None
    THEN <<Effect("fetch", currentAccountToken[1])>>
    ELSE <<>>

\* account.ts:146-150  setAccountHistory: store the value and notify it ("" for
\* undefined)
setAccountHistory(accountHistory) ==
    [accountHistoryValue |-> accountHistory,
     effects |-> <<Effect("notifyAccountHistory",
                          IF accountHistory = None THEN "" ELSE accountHistory[1])>>]

\* mutation of updateAccountHistoryFailed: the catch block resets the history
updateAccountHistoryFailed_Resets(current) ==
    [accountHistoryValue |-> None,
     effects |-> <<Effect("log", "Failed to fetch the account history"),
                   Effect("notifyAccountHistory", "")>>]

\* account.ts:221-224  the catch block of updateAccountHistory: log, nothing else
updateAccountHistoryFailed(current) ==
    [accountHistoryValue |-> current,
     effects |-> <<Effect("log", "Failed to fetch the account history")>>]

\* account.ts:73-75  the cache update of a successful submitVoucher()
voucherCacheUpdate(currentAccountToken) ==
    IF currentAccountToken # None
    THEN <<Effect("handleVoucherResponse", currentAccountToken[1])>>
    ELSE <<>>

\* ------------------------------------------------------------------ actions
\* account.ts:123-144
HandleDeviceEvent(eventState, postUpgradeCheck) ==
    /\ deviceStateValue' = nextDeviceState(deviceStateValue, eventState)
    /\ effects' = deviceEventEffects(eventState, postUpgradeCheck)
    /\ cache' = applyCacheRequests(cache, effects')
    /\ fencedFetches' = applyCacheFences(cache, fencedFetches, effects')
    /\ historyCalls' = startHistoryRefresh(historyCalls)
    /\ lastEvent' = Some(eventState)
    /\ scheduler' = deviceEventSchedule(scheduler, eventState)
    /\ UNCHANGED <<accountDataValue, accountHistoryValue, now, voucherCalls>>
    /\ policyRun' = None
    /\ op' = Op("handleDeviceEvent", eventState.type)
    /\ redelivered' = (op.name = "handleDeviceEvent" /\ lastEvent = Some(eventState))

\* account.ts:107-111.  isConnected is daemonRpc.isConnected, the state of the
\* transport at the time of the call.
UpdateAccountData(isConnected) ==
    /\ effects' = IF mayUpdateAccountData(isConnected, deviceStateValue)
                  THEN <<Effect("fetch", getAccountToken(deviceStateValue)[1])>>
                  ELSE <<>>
    /\ cache' = applyCacheRequests(cache, effects')
    /\ UNCHANGED <<coordinator, now, historyCalls, voucherCalls, lastEvent, fencedFetches>>
    /\ policyRun' = None
    /\ op' = Op("updateAccountData", IF isConnected THEN "connected" ELSE "disconnected")
    /\ redelivered' = FALSE

\* account.ts:113-121
DetectStaleAccountExpiry(tunnelState) ==
    /\ effects' = IF staleExpiryDetected(tunnelState, accountDataValue, now)
                  THEN <<Effect("log", "Detected the stale account expiry."),
                         Effect("invalidate", "")>>
                  ELSE <<>>
    /\ cache' = applyCacheRequests(cache, effects')
    /\ fencedFetches' = applyCacheFences(cache, fencedFetches, effects')
    /\ UNCHANGED <<coordinator, now, historyCalls, voucherCalls, lastEvent>>
    /\ policyRun' = None
    /\ op' = Op("detectStaleAccountExpiry", tunnelState)
    /\ redelivered' = FALSE

\* account.ts:36-46  a getAccountData call of the cache succeeds and is delivered
FetchDelivered(accountToken, expiry, expiredMayDisplay, closeToExpiryMayDisplay) ==
    /\ accountToken \in cache
    /\ LET d == cacheObserver([expiry |-> expiry], scheduler, now,
                              expiredMayDisplay, closeToExpiryMayDisplay)
       IN /\ accountDataValue' = d.accountDataValue
          /\ scheduler' = d.scheduler
          /\ effects' = d.effects
    /\ cache' = cache \ {accountToken}
    /\ policyRun' = Some(PolicyRun(accountDataValue', scheduler, expiredMayDisplay,
                                   closeToExpiryMayDisplay))
    /\ UNCHANGED <<deviceStateValue, accountHistoryValue, now, historyCalls,
                   voucherCalls, lastEvent, fencedFetches>>
    /\ op' = Op("fetchDelivered", "")
    /\ redelivered' = FALSE

\* account.ts:36-38  a getAccountData call of the cache fails: nothing is delivered
FetchFailed(accountToken) ==
    /\ accountToken \in cache
    /\ cache' = cache \ {accountToken}
    /\ effects' = <<>>
    /\ UNCHANGED <<coordinator, now, historyCalls, voucherCalls, lastEvent, fencedFetches>>
    /\ policyRun' = None
    /\ op' = Op("fetchFailed", "")
    /\ redelivered' = FALSE

\* account.ts:36-38  a getAccountData call that invalidate() fenced completes,
\* with account data or with an error: the cache drops the completion and does
\* not call its observer
FetchDropped ==
    /\ fencedFetches > 0
    /\ fencedFetches' = fencedFetches - 1
    /\ effects' = <<>>
    /\ UNCHANGED <<coordinator, cache, now, historyCalls, voucherCalls, lastEvent>>
    /\ policyRun' = None
    /\ op' = Op("fetchDropped", "")
    /\ redelivered' = FALSE

\* account.ts:213  the armed callback fires: () => this.handleAccountExpiry()
TimerFired(timer, expiredMayDisplay, closeToExpiryMayDisplay) ==
    /\ timer \in scheduler
    /\ timer.fireTime <= now
    /\ LET p == handleAccountExpiry(accountDataValue, scheduler \ {timer}, now,
                                    expiredMayDisplay, closeToExpiryMayDisplay)
       IN /\ scheduler' = p.scheduler
          /\ effects' = p.effects
    /\ policyRun' = Some(PolicyRun(accountDataValue, scheduler \ {timer}, expiredMayDisplay,
                                   closeToExpiryMayDisplay))
    /\ UNCHANGED <<deviceStateValue, accountDataValue, accountHistoryValue, cache,
                   now, historyCalls, voucherCalls, lastEvent, fencedFetches>>
    /\ op' = Op("timerFired", "")
    /\ redelivered' = FALSE

\* the wall clock advances
Tick ==
    /\ now < MaxTicks * TickStep
    /\ now' = now + TickStep
    /\ effects' = <<>>
    /\ UNCHANGED <<coordinator, cache, historyCalls, voucherCalls, lastEvent, fencedFetches>>
    /\ policyRun' = None
    /\ op' = Op("tick", "")
    /\ redelivered' = FALSE

VoucherCall(current) == [rpc |-> "submitVoucher", accountToken |-> current]

\* a handler calls the daemon and suspends on the await
StartCall(call) ==
    /\ Cardinality(voucherCalls) < MaxVoucherCalls
    /\ call \notin voucherCalls
    /\ voucherCalls' = voucherCalls \cup {call}
    /\ effects' = <<>>

\* the awaited daemon call settles
SettleCall(call) ==
    /\ call \in voucherCalls
    /\ voucherCalls' = voucherCalls \ {call}

\* account.ts:177-188  logout(): before its await it only calls the daemon, so
\* the call and its settlement are one step, taken when logoutAccount() settles
Logout(rejection) ==
    /\ LET done == IF rejection = "" THEN logoutSucceeded(scheduler)
                                      ELSE logoutFailed(scheduler)
       IN /\ scheduler' = done.scheduler
          /\ effects' = done.effects
    /\ UNCHANGED <<deviceStateValue, accountDataValue, accountHistoryValue, cache, now,
                   historyCalls, voucherCalls, lastEvent, fencedFetches>>
    /\ policyRun' = None
    /\ op' = Op("logout", rejection)
    /\ redelivered' = FALSE

\* account.ts:162-175  login(): it reads and writes no state of the coordinator
\* on either side of its await, so the call and its settlement are one step.
\* rejection is "" when loginAccount() resolves.
Login(accountToken, rejection) ==
    /\ LET done == loginSettled(deviceStateValue, accountToken, rejection)
       IN /\ deviceStateValue' = done.deviceStateValue
          /\ effects' = done.effects
    /\ UNCHANGED <<accountDataValue, accountHistoryValue, scheduler, cache, now,
                   historyCalls, voucherCalls, lastEvent, fencedFetches>>
    /\ policyRun' = None
    /\ op' = Op("login", rejection)
    /\ redelivered' = FALSE

\* account.ts:152-160  createNewAccount(): as login(), one step; a rejection is
\* logged and rethrown unchanged
CreateNewAccount(rejection) ==
    /\ effects' = IF rejection = ""
                  THEN <<>>
                  ELSE <<Effect("log", "Failed to create account"),
                         Effect("throw", rejection)>>
    /\ UNCHANGED <<coordinator, cache, now, historyCalls, voucherCalls,
                   lastEvent, fencedFetches>>
    /\ policyRun' = None
    /\ op' = Op("createNewAccount", rejection)
    /\ redelivered' = FALSE

\* account.ts:69-71  handleSubmitVoucher up to its await
SubmitVoucherStart ==
    /\ StartCall(VoucherCall(getAccountToken(deviceStateValue)))
    /\ UNCHANGED <<coordinator, cache, now, historyCalls, lastEvent, fencedFetches>>
    /\ policyRun' = None
    /\ op' = Op("submitVoucher", "called")
    /\ redelivered' = FALSE

\* account.ts:71-77  submitVoucher() resolved; the cache applies the response
\* and calls its observer (account.ts:39-45)
SubmitVoucherSucceeded(current, newExpiry, expiredMayDisplay, closeToExpiryMayDisplay) ==
    /\ SettleCall(VoucherCall(current))
    /\ LET update == voucherCacheUpdate(current)
           d == cacheObserver([expiry |-> newExpiry], scheduler, now,
                              expiredMayDisplay, closeToExpiryMayDisplay)
       IN IF update # <<>>
          THEN /\ accountDataValue' = d.accountDataValue
               /\ scheduler' = d.scheduler
               /\ effects' = update \o d.effects
               /\ policyRun' = Some(PolicyRun(accountDataValue', scheduler,
                                              expiredMayDisplay, closeToExpiryMayDisplay))
          ELSE /\ effects' = <<>>
               /\ policyRun' = None
               /\ UNCHANGED <<accountDataValue, scheduler>>
    /\ UNCHANGED <<deviceStateValue, accountHistoryValue, cache, now,
                   historyCalls, lastEvent, fencedFetches>>
    /\ op' = Op("submitVoucher", "resolved")
    /\ redelivered' = FALSE

\* account.ts:71  submitVoucher() rejected: the handler's promise rejects
SubmitVoucherFailed(current) ==
    /\ SettleCall(VoucherCall(current))
    /\ effects' = <<Effect("throw", "Error")>>
    /\ UNCHANGED <<coordinator, cache, now, historyCalls, lastEvent, fencedFetches>>
    /\ policyRun' = None
    /\ op' = Op("submitVoucher", "rejected")
    /\ redelivered' = FALSE

\* account.ts:81-84  accountHistory.handleClear: it touches no state of the
\* coordinator before its await, so the call and its settlement are one step.
\* When clearAccountHistory() resolves the history refresh is started and not
\* awaited; when it rejects the handler's promise rejects.
ClearAccountHistory(rejection) ==
    /\ IF rejection = ""
       THEN /\ historyCalls' = startHistoryRefresh(historyCalls)
            /\ effects' = <<Effect("updateAccountHistory", "")>>
       ELSE /\ effects' = <<Effect("throw", rejection)>>
            /\ UNCHANGED historyCalls
    /\ UNCHANGED <<coordinator, cache, now, voucherCalls, lastEvent, fencedFetches>>
    /\ policyRun' = None
    /\ op' = Op("clearAccountHistory", rejection)
    /\ redelivered' = FALSE

\* account.ts:220, 146-150  getAccountHistory() resolved: setAccountHistory
HistoryRefreshSucceeded(accountHistory) ==
    /\ historyCalls > 0
    /\ historyCalls' = historyCalls - 1
    /\ LET done == setAccountHistory(accountHistory)
       IN /\ accountHistoryValue' = done.accountHistoryValue
          /\ effects' = done.effects
    /\ UNCHANGED <<deviceStateValue, accountDataValue, scheduler, cache, now,
                   voucherCalls, lastEvent, fencedFetches>>
    /\ policyRun' = None
    /\ op' = Op("updateAccountHistory", "resolved")
    /\ redelivered' = FALSE

\* account.ts:221-224  getAccountHistory() rejected: log and swallow
HistoryRefreshFailed ==
    /\ historyCalls > 0
    /\ historyCalls' = historyCalls - 1
    /\ LET done == updateAccountHistoryFailed(accountHistoryValue)
       IN /\ accountHistoryValue' = done.accountHistoryValue
          /\ effects' = done.effects
    /\ UNCHANGED <<deviceStateValue, accountDataValue, scheduler, cache, now,
                   voucherCalls, lastEvent, fencedFetches>>
    /\ policyRun' = None
    /\ op' = Op("updateAccountHistory", "rejected")
    /\ redelivered' = FALSE

\* account.ts:68, 86-100  the handlers that only forward to the daemon
\* (getWwwAuthToken, getDeviceState, listDevices, removeDevice)
ForwardedCommand ==
    /\ effects' = <<>>
    /\ UNCHANGED <<coordinator, cache, now, historyCalls, voucherCalls,
                   lastEvent, fencedFetches>>
    /\ policyRun' = None
    /\ op' = Op("forwarded", "")
    /\ redelivered' = FALSE

Next ==
    \/ \E s \in DeviceStates, pu \in BOOLEAN : HandleDeviceEvent(s, pu)
    \/ \E connected \in BOOLEAN : UpdateAccountData(connected)
    \/ \E ts \in TunnelStates : DetectStaleAccountExpiry(ts)
    \/ \E t \in AccountTokens, e \in Expiries, x, c \in BOOLEAN : FetchDelivered(t, e, x, c)
    \/ \E t \in AccountTokens : FetchFailed(t)
    \/ FetchDropped
    \/ \E tm \in scheduler, x, c \in BOOLEAN : TimerFired(tm, x, c)
    \/ Tick
    \/ \E r \in {"", "Error"} : Logout(r)
    \/ \E t \in AccountTokens, r \in {""} \cup Rejections : Login(t, r)
    \/ \E r \in {"", "Error"} : CreateNewAccount(r)
    \/ SubmitVoucherStart
    \/ \E cur \in {None} \cup {Some(t) : t \in AccountTokens}, e \in Expiries,
          x, c \in BOOLEAN : SubmitVoucherSucceeded(cur, e, x, c)
    \/ \E cur \in {None} \cup {Some(t) : t \in AccountTokens} : SubmitVoucherFailed(cur)
    \/ \E r \in {"", "Error"} : ClearAccountHistory(r)
    \/ \E h \in {None} \cup {Some(t) : t \in HistoryTokens} : HistoryRefreshSucceeded(h)
    \/ HistoryRefreshFailed
    \/ ForwardedCommand

Spec == Init /\ [][Next]_vars

\* ================================================================== claims
CacheRequests(eff) == SelectSeq(eff, LAMBDA x : x.e \in {"fetch", "invalidate"})
Notifications(eff) == SelectSeq(eff, LAMBDA x : x.e = "notify")
Positions(eff, e) == {i \in 1..Len(eff) : eff[i].e = e}

\* C1: in every reachable state the stored DeviceState is the state carried by
\* the most recently delivered device event (nothing before the first event), so
\* no command, cache delivery, timer firing or call settlement writes it.
C1_DeviceStateIsLastEvent ==
    deviceStateValue = lastEvent

\* a later event has overwritten an earlier one, and other handlers ran since
C1_Witness ==
    /\ lastEvent = Some(Revoked)
    /\ accountDataValue # None
    /\ scheduler # {}
    /\ op = Op("login", "InvalidAccountError")

\* C2: a handleDeviceEvent call makes exactly one cache request, fetch(id) for
\* loggedIn{id} and invalidate for loggedOut and revoked, and makes it before it
\* starts the account-history refresh.
C2_OneCacheRequestBeforeHistory ==
    op.name = "handleDeviceEvent" =>
        LET state == lastEvent[1]
            reqs == CacheRequests(effects)
        IN /\ Len(reqs) = 1
           /\ state.type = "logged in" => reqs[1] = Effect("fetch", state.accountToken)
           /\ state.type \in {"logged out", "revoked"} => reqs[1] = Effect("invalidate", "")
           /\ Cardinality(Positions(effects, "updateAccountHistory")) = 1
           /\ \A i \in Positions(effects, "fetch") \cup Positions(effects, "invalidate") :
                  \A j \in Positions(effects, "updateAccountHistory") : i < j

C2_Witness ==
    /\ op = Op("handleDeviceEvent", "revoked")
    /\ effects = <<Effect("performPostUpgradeCheck", ""), Effect("invalidate", ""),
                   Effect("updateAccountHistory", ""), Effect("setTrayContextMenu", ""),
                   Effect("notifyDevice", "revoked")>>
    /\ cache = {}

\* C3: when the Policy runs with account data present and the expired
\* evaluation may display, then whatever the expiring-soon evaluation answers,
\* no schedule is armed afterwards and the invocation emitted exactly one
\* notification, the expired one, and armed nothing.
C3_ExpiredCancelsAndNotifiesOnce ==
    (/\ policyRun # None
     /\ policyRun[1].accountData # None
     /\ policyRun[1].expiredMayDisplay) =>
        /\ scheduler = {}
        /\ Notifications(effects) = <<Effect("notify", "expired")>>
        /\ Positions(effects, "schedule") = {}

\* the Policy found a schedule armed, the expiring-soon evaluation was eligible
\* too, and the expired branch cancelled the schedule
C3_Witness ==
    /\ policyRun # None
    /\ policyRun[1].found # {}
    /\ policyRun[1].expiredMayDisplay
    /\ policyRun[1].closeToExpiryMayDisplay
    /\ scheduler = {}
    /\ Notifications(effects) = <<Effect("notify", "expired")>>

ExpectedDelay(expiry, t) ==
    IF expiry - t < 12 * Hour THEN expiry - t ELSE 12 * Hour

\* C4: when the Policy runs with account data present, the expired evaluation
\* may not display, no schedule armed and the expiring-soon evaluation may
\* display, it emits exactly one expiring-soon notification and leaves a schedule
\* armed with delay min(12 hours, expiry - now) for the stored expiry, so the
\* fire time is neither after the stored expiry nor more than 12 hours ahead.
C4_ReminderArmsBoundedDelay ==
    (/\ policyRun # None
     /\ policyRun[1].accountData # None
     /\ ~policyRun[1].expiredMayDisplay
     /\ policyRun[1].found = {}
     /\ policyRun[1].closeToExpiryMayDisplay) =>
        LET expiry == accountDataValue[1].expiry
        IN /\ policyRun[1].accountData = accountDataValue
           /\ Notifications(effects) = <<Effect("notify", "close-to-expiry")>>
           /\ scheduler = {[fireTime |-> now + ExpectedDelay(expiry, now),
                            delay |-> ExpectedDelay(expiry, now)]}
           /\ \A tm \in scheduler : tm.fireTime <= expiry /\ tm.fireTime <= now + 12 * Hour

\* a reminder armed with the 12 hour cap, the expiry being further away
C4_Witness ==
    /\ policyRun # None
    /\ Notifications(effects) = <<Effect("notify", "close-to-expiry")>>
    /\ accountDataValue[1].expiry - now > twelveHours
    /\ \E tm \in scheduler : tm.delay = twelveHours /\ tm.fireTime = now + twelveHours

\* C5: when the Policy runs while a schedule is armed and the expired evaluation
\* may not display, it emits no notification and leaves the armed schedule, fire
\* time included, as it found it; and an expiring-soon notification is only ever
\* emitted by a Policy run that found no schedule armed.
C5_NoReminderWhileArmed ==
    /\ (/\ policyRun # None
        /\ ~policyRun[1].expiredMayDisplay
        /\ policyRun[1].found # {}) =>
           /\ Notifications(effects) = <<>>
           /\ scheduler = policyRun[1].found
    /\ (\E i \in Positions(effects, "notify") : effects[i].arg = "close-to-expiry") =>
           /\ policyRun # None
           /\ policyRun[1].found = {}

\* fresh data with an earlier expiry arrived while a schedule was armed and the
\* expiring-soon evaluation was eligible: nothing was emitted and the schedule
\* kept its fire time
C5_Witness ==
    /\ policyRun # None
    /\ policyRun[1].found # {}
    /\ policyRun[1].closeToExpiryMayDisplay
    /\ ~policyRun[1].expiredMayDisplay
    /\ Notifications(effects) = <<>>
    /\ \E tm \in scheduler : tm.fireTime > accountDataValue[1].expiry

\* C6: in every reachable state at most one expiry-notification callback is
\* pending: no sequence of Policy runs, timer firings, logouts and data arrivals
\* leaves two callbacks that would both fire.
C6_AtMostOneSchedule ==
    Cardinality(scheduler) <= 1

\* the timer fired and its Policy run armed the next recheck: one callback is
\* pending, the new one
C6_Witness ==
    /\ op.name = "timerFired"
    /\ Positions(effects, "schedule") # {}
    /\ Cardinality(scheduler) = 1
    /\ \A tm \in scheduler : tm.fireTime > now

\* C7: when logout()'s logoutAccount() call succeeded, no schedule is armed when
\* logout() completes.
C7_LogoutSuccessCancels ==
    op = Op("logout", "") => scheduler = {}

\* a successful logout cancelled a schedule that was armed
C7_Witness ==
    /\ op = Op("logout", "")
    /\ effects = <<Effect("cancel", "armed")>>
    /\ scheduler = {}

C9_UpdateFetchesIffConnectedAndLoggedIn ==
    [][op'.name = "updateAccountData" =>
          /\ UNCHANGED <<deviceStateValue, accountDataValue, accountHistoryValue, scheduler>>
          /\ IF /\ op'.input = "connected"
                /\ deviceStateValue # None
                /\ deviceStateValue[1].type = "logged in"
             THEN /\ effects' = <<Effect("fetch", deviceStateValue[1].accountToken)>>
                  /\ deviceStateValue[1].accountToken \in cache'
             ELSE /\ effects' = <<>>
                  /\ cache' = cache]_vars

\* connected and logged in with B while a fetch for A is still in flight: the
\* fetch issued is for B
C9_Witness ==
    /\ op = Op("updateAccountData", "connected")
    /\ deviceStateValue = Some(LoggedIn("B"))
    /\ effects = <<Effect("fetch", "B")>>
    /\ cache = {"A", "B"}

\* C10: detectStaleAccountExpiry(tunnelState) invalidates the cache exactly when
\* the tunnel state is connected and there is no account data stored or the
\* stored expiry is not after now; it never issues a fetch.
C10_StaleDetectionInvalidatesIff ==
    op.name = "detectStaleAccountExpiry" =>
        CacheRequests(effects) =
            IF /\ op.input = "connected"
               /\ (accountDataValue = None \/ accountDataValue[1].expiry <= now)
            THEN <<Effect("invalidate", "")>>
            ELSE <<>>

\* connected, and the stored expiry is exactly now: the cache is invalidated
C10_Witness ==
    /\ op = Op("detectStaleAccountExpiry", "connected")
    /\ accountDataValue # None
    /\ accountDataValue[1].expiry = now
    /\ CacheRequests(effects) = <<Effect("invalidate", "")>>

\* C11: an invalidate, whether from a loggedOut or revoked event or from a stale
\* expiry detection, leaves no fetch deliverable: every fetch then in flight is
\* fenced.  When a fenced fetch completes, the device state, the account data,
\* the account history and the schedule stay as they were, nothing is emitted
\* (no account-data-changed notification) and the Policy does not run; the
\* observer runs only for a fetch that was not fenced.
C11_FencedFetchIsDropped ==
    [][/\ (/\ op'.name \in {"handleDeviceEvent", "detectStaleAccountExpiry"}
           /\ Positions(effects', "invalidate") # {}) =>
              /\ cache' = {}
              /\ cache # {} =>
                     \/ fencedFetches' > fencedFetches
                     \/ fencedFetches' = MaxFencedFetches
       /\ op'.name = "fetchDropped" =>
              /\ fencedFetches > 0
              /\ UNCHANGED <<deviceStateValue, accountDataValue, accountHistoryValue,
                             scheduler, cache>>
              /\ effects' = <<>>
              /\ policyRun' = None
       /\ op'.name = "fetchDelivered" =>
              /\ UNCHANGED fencedFetches
              /\ \E t \in cache : cache' = cache \ {t}]_vars

\* the fetch of a loggedIn event was fenced by a revoked event and has completed:
\* there is still no account data stored, and nothing is in flight any more
C11_Witness ==
    /\ op = Op("fetchDropped", "")
    /\ deviceStateValue = Some(Revoked)
    /\ accountDataValue = None
    /\ scheduler = {}
    /\ cache = {}
    /\ fencedFetches = 0

\* C12: when submitVoucher() was called while logged in with X and its daemon
\* call succeeds while still logged in with X, the handler calls
\* handleVoucherResponse(X, response) once and first; no step of the command
\* issues a cache fetch or changes the getAccountData calls in flight.  When the
\* daemon call fails the handler only rejects with the error: no cache update,
\* account data and schedule as they were, no Policy run.
C12_VoucherAppliedWithoutFetch ==
    [][op'.name = "submitVoucher" =>
          /\ Positions(effects', "fetch") = {}
          /\ UNCHANGED <<cache, fencedFetches>>
          /\ \A X \in AccountTokens :
                (/\ op'.input = "resolved"
                 /\ deviceStateValue = Some(LoggedIn(X))
                 /\ VoucherCall(Some(X)) \in voucherCalls \ voucherCalls') =>
                    /\ Head(effects') = Effect("handleVoucherResponse", X)
                    /\ Cardinality(Positions(effects', "handleVoucherResponse")) = 1
          /\ op'.input = "rejected" =>
                /\ effects' = <<Effect("throw", "Error")>>
                /\ UNCHANGED <<accountDataValue, scheduler>>
                /\ policyRun' = None]_vars

\* logged in with A throughout, no fetch in flight: the response was applied for
\* A and the account data is stored
C12_Witness ==
    /\ op = Op("submitVoucher", "resolved")
    /\ deviceStateValue = Some(LoggedIn("A"))
    /\ Len(effects) > 0
    /\ Head(effects) = Effect("handleVoucherResponse", "A")
    /\ accountDataValue # None
    /\ cache = {}
    /\ fencedFetches = 0

\* C13: when submitVoucher()'s daemon call succeeds, the handler applies the
\* response to the cache only for the account that is active at that moment:
\* every handleVoucherResponse(id, response) it makes has the stored DeviceState
\* loggedIn with that id.  (The command leaves the DeviceState as it is, so the
\* state after the step is the state at the moment of success.)
C13_VoucherAppliedForActiveAccountOnly ==
    op = Op("submitVoucher", "resolved") =>
        \A i \in Positions(effects, "handleVoucherResponse") :
            deviceStateValue = Some(LoggedIn(effects[i].arg))

CommandOps ==
    {"createNewAccount", "login", "logout", "submitVoucher", "updateAccountData",
     "clearAccountHistory", "forwarded"}

\* C14: no step of a command handler (createNewAccount, login, logout,
\* submitVoucher, updateAccountData, history clear, the forwarded device
\* commands), whether its daemon call succeeded or failed, changes the stored
\* DeviceState, so isLoggedIn() and the current account token are the same after
\* it; the stored DeviceState changes in handleDeviceEvent steps only.
C14_CommandsKeepDeviceState ==
    [][/\ op'.name \in CommandOps =>
              /\ deviceStateValue' = deviceStateValue
              /\ isLoggedIn(deviceStateValue') = isLoggedIn(deviceStateValue)
              /\ getAccountToken(deviceStateValue') = getAccountToken(deviceStateValue)
       /\ deviceStateValue' # deviceStateValue => op'.name = "handleDeviceEvent"]_vars

\* login() has succeeded and the confirming event has not arrived: the stored
\* state is still logged out
C14_Witness ==
    /\ op = Op("login", "")
    /\ deviceStateValue = Some(LoggedOut)
    /\ ~isLoggedIn(deviceStateValue)
    /\ getAccountToken(deviceStateValue) = None

\* C15: login() makes one loginAccount() call.  When the call resolves login()
\* throws nothing; when it rejects with InvalidAccountError login() throws the
\* error "Invalid account number"; when it rejects with any other error login()
\* throws that error; and "Invalid account number" is thrown in no other case.
\* The stored DeviceState is still that of the last device event.
C15_LoginErrorMapping ==
    op.name = "login" =>
        /\ Cardinality(Positions(effects, "loginAccount")) = 1
        /\ op.input = "" => Positions(effects, "throw") = {}
        /\ op.input # "" =>
               /\ Cardinality(Positions(effects, "throw")) = 1
               /\ effects[Len(effects)].e = "throw"
               /\ effects[Len(effects)].arg = "Invalid account number"
                      <=> op.input = "InvalidAccountError"
               /\ op.input # "InvalidAccountError" => effects[Len(effects)].arg = op.input
        /\ deviceStateValue = lastEvent

\* loginAccount() rejected with the invalid-account condition while logged out
C15_Witness ==
    /\ op = Op("login", "InvalidAccountError")
    /\ deviceStateValue = Some(LoggedOut)
    /\ effects = <<Effect("loginAccount", ""), Effect("log", "Failed to login"),
                   Effect("throw", "Invalid account number")>>

\* C16: when the getAccountHistory() call of a history refresh rejects, the
\* stored account history stays as it was, no account-history-changed
\* notification is emitted and nothing is thrown; when it resolves, the stored
\* history becomes the returned value (nothing, when nothing is returned), which
\* is the value notified, and nothing is thrown either.
C16_HistoryRefreshFailureKeepsHistory ==
    [][op'.name = "updateAccountHistory" =>
          /\ Positions(effects', "throw") = {}
          /\ UNCHANGED <<deviceStateValue, accountDataValue, scheduler>>
          /\ op'.input = "rejected" =>
                /\ accountHistoryValue' = accountHistoryValue
                /\ Positions(effects', "notifyAccountHistory") = {}
          /\ op'.input = "resolved" =>
                /\ Cardinality(Positions(effects', "notifyAccountHistory")) = 1
                /\ \A i \in Positions(effects', "notifyAccountHistory") :
                       accountHistoryValue' = IF effects'[i].arg = "" THEN None
                                              ELSE Some(effects'[i].arg)]_vars

\* a refresh failed after an earlier one had stored A: A is still stored
C16_Witness ==
    /\ op = Op("updateAccountHistory", "rejected")
    /\ accountHistoryValue = Some("A")
    /\ effects = <<Effect("log", "Failed to fetch the account history")>>

\* C17: when handleDeviceEvent is delivered an event right after the same event
\* has been delivered, the second delivery leaves the stored DeviceState, the
\* account data, the schedule and the getAccountData calls in flight (the
\* deliverable ones and the fenced ones) as the first left them.
C17_DuplicateEventIdempotent ==
    [][(/\ op.name = "handleDeviceEvent"
        /\ op'.name = "handleDeviceEvent"
        /\ lastEvent' = lastEvent) =>
           /\ UNCHANGED <<deviceStateValue, accountDataValue, scheduler>>
           /\ UNCHANGED <<cache, fencedFetches>>
           /\ Cardinality(cache') + fencedFetches' = Cardinality(cache) + fencedFetches]_vars

\* loggedIn{A} was delivered twice in a row: one getAccountData call is in flight
C17_Witness ==
    /\ redelivered
    /\ op = Op("handleDeviceEvent", "logged in")
    /\ deviceStateValue = Some(LoggedIn("A"))
    /\ cache = {"A"}
    /\ fencedFetches = 0

\* what a delivery of account data is to leave behind, given what the Policy ran
\* on: the notifications and scheduler calls after the account-data-changed
\* notification, and the schedule
DeliveryEffects(run) ==
    IF run.expiredMayDisplay
    THEN <<Effect("cancel", IF run.found # {} THEN "armed" ELSE "idle"),
           Effect("notify", "expired")>>
    ELSE IF run.found = {} /\ run.closeToExpiryMayDisplay
         THEN <<Effect("notify", "close-to-expiry"), Effect("schedule", "")>>
         ELSE <<>>

DeliverySchedule(run, t) ==
    IF run.expiredMayDisplay
    THEN {}
    ELSE IF run.found = {} /\ run.closeToExpiryMayDisplay
         THEN {[fireTime |-> t + ExpectedDelay(run.accountData[1].expiry, t),
                delay |-> ExpectedDelay(run.accountData[1].expiry, t)]}
         ELSE run.found

DeliveredAs(eff) ==
    /\ policyRun # None
    /\ accountDataValue # None
    /\ policyRun[1].accountData = accountDataValue
    /\ eff = <<Effect("notifyAccount", "")>> \o DeliveryEffects(policyRun[1])
    /\ scheduler = DeliverySchedule(policyRun[1], now)

\* C18: a voucher response applied through handleVoucherResponse and a fetch
\* delivery leave the same behind, as a function of the data delivered, the
\* schedule found and the two evaluations: the account data stored is the data
\* delivered, one account-data-changed notification is emitted, and the Policy
\* has run on the new data with the notification and schedule outcome that
\* function gives.
C18_VoucherUpdateDeliversLikeFetch ==
    /\ op.name = "fetchDelivered" => DeliveredAs(effects)
    /\ (op = Op("submitVoucher", "resolved") /\ effects # <<>>) =>
           /\ Head(effects).e = "handleVoucherResponse"
           /\ DeliveredAs(Tail(effects))

\* a voucher response was applied with no schedule armed and the expiring-soon
\* evaluation eligible: the reminder was emitted and the recheck armed, as a
\* fetch delivery would have
C18_Witness ==
    /\ op = Op("submitVoucher", "resolved")
    /\ effects = <<Effect("handleVoucherResponse", "A"), Effect("notifyAccount", ""),
                   Effect("notify", "close-to-expiry"), Effect("schedule", "")>>
    /\ scheduler # {}
    /\ policyRun # None
    /\ policyRun[1].found = {}

\* C19: a handleDeviceEvent step leaves the schedule, fire time included, as it
\* was, for loggedOut and revoked events too.  A pending callback leaves the
\* schedule only in a logout() whose logoutAccount() call succeeded, in a Policy
\* run whose expired evaluation may display, or by firing.
C19_DeviceEventKeepsSchedule ==
    [][/\ op'.name = "handleDeviceEvent" => scheduler' = scheduler
       /\ scheduler \ scheduler' # {} =>
              \/ op' = Op("logout", "")
              \/ op'.name = "timerFired"
              \/ policyRun' # None /\ policyRun'[1].expiredMayDisplay]_vars

\* the device was revoked while a schedule was armed; the timer has fired since
\* and has run the Policy, which armed the next recheck
C19_Witness ==
    /\ op = Op("timerFired", "")
    /\ deviceStateValue = Some(Revoked)
    /\ policyRun # None
    /\ Notifications(effects) = <<Effect("notify", "close-to-expiry")>>
    /\ scheduler # {}

DataArrivals == {"fetchDelivered", "submitVoucher"}

\* C20: a Policy run with no account data stored, or with neither the expired
\* nor the expiring-soon evaluation eligible, emits no notification, cancels
\* nothing and arms nothing, and leaves the schedule as it found it; when the run
\* came from the timer firing, no schedule is armed after it.  While no schedule
\* is armed the Policy runs, and a schedule gets armed, only in a step that
\* delivers account data.
C20_IneligibleRunEndsTheLoop ==
    [][/\ (/\ policyRun' # None
           /\ \/ policyRun'[1].accountData = None
              \/ /\ ~policyRun'[1].expiredMayDisplay
                 /\ ~policyRun'[1].closeToExpiryMayDisplay) =>
              /\ Notifications(effects') = <<>>
              /\ Positions(effects', "cancel") = {}
              /\ Positions(effects', "schedule") = {}
              /\ scheduler' = policyRun'[1].found
              /\ op'.name = "timerFired" => scheduler' = {}
       /\ (scheduler = {} /\ policyRun' # None) => op'.name \in DataArrivals
       /\ (scheduler = {} /\ scheduler' # {}) => op'.name \in DataArrivals]_vars

\* the timer fired with neither evaluation eligible: nothing was emitted and no
\* schedule is armed any more
C20_Witness ==
    /\ op = Op("timerFired", "")
    /\ policyRun # None
    /\ policyRun[1].accountData # None
    /\ ~policyRun[1].expiredMayDisplay
    /\ ~policyRun[1].closeToExpiryMayDisplay
    /\ effects = <<>>
    /\ scheduler = {}

====
